---- MODULE Spec2Model ----
(***************************************************************************)
(* QuickLink URL shortener.                                                *)
(*                                                                         *)
(*   - the client history store of src/src/components/URLShortener.jsx     *)
(*     (load on mount, record on successful shorten, remove, clear, and    *)
(*     the save effect that mirrors the list into localStorage);           *)
(*   - the POST /api/shorten handler of src/server/routes/api.js with its  *)
(*     validators isValidUrl and isValidSlug.                              *)
(*                                                                         *)
(* Three specifications share the variables: SpecStore (the history store  *)
(* operations, starting from any persisted record), SpecProxy (requests to *)
(* the shorten handler and the provider's answers) and SpecValidator       *)
(* (isValidSlug applied to arguments of every length).  Each leaves the    *)
(* other parts idle.                                                       *)
(*                                                                         *)
(* Strings are sequences: a slug is a sequence of one-character strings, a *)
(* URL is a sequence of lexical tokens (scheme, "//", host, blanks).       *)
(***************************************************************************)
EXTENDS Integers, Sequences, FiniteSets, TLC

VARIABLES
    \* ---- client (URLShortener.jsx) ----
    storage,        \* localStorage item 'urlHistory': Absent or a text
    urlHistory,     \* React state urlHistory: a JS value
    phase,          \* "unmounted" | "mounted" | "crashed"
    effectPending,  \* the [urlHistory] effect is scheduled and has not run yet
    clock,          \* Date.now()
    dataId,         \* data.id of the proxy's success responses: missing or
                    \* present, the same throughout a behaviour
    lastOp,         \* history variable: the last store operation
    recLog,         \* history variable: entries recorded since the store was empty
    clearedNoRecord,\* history variable: clear happened and no record since
    formUrl,        \* React state url: the text of the URL input
    formSlug,       \* React state customSlug: the text of the slug input
    shortenedUrl,   \* React state shortenedUrl
    isLoading,      \* React state isLoading
    formError,      \* React state error
    apiStatus,      \* React state apiStatus: "unknown" | "connected" | "error"
    inflight,       \* fetch('/api/shorten') calls that have not settled
    probes,         \* fetch(.../test) calls that have not settled
    \* ---- server (routes/api.js) ----
    req,            \* body of the request being handled
    pc,             \* position of the shorten handler
    res,            \* response written by the handler
    providerCalls,  \* calls made to the provider for this request
    forwarded,      \* body of the create-link call
    settled,        \* history variable: what the create-link call settled with
    testPc,         \* position of the GET /test handler
    testRes,        \* response written by the GET /test handler
    testSettled,    \* history variable: what the account call settled with
    \* ---- server (server.js) ----
    hreq,           \* the request passing through the middleware chain
    stage,          \* the middleware the request has reached
    hbody,          \* req.body
    nextErr,        \* the error passed to next(err)
    sends,          \* calls made for this request that write a response
    written,        \* status of the response written, 0 if none
    \* ---- validator harness ----
    vIn, vOut

viewVars == <<formUrl, formSlug, shortenedUrl, isLoading, formError,
              apiStatus, inflight, probes>>
clientVars == <<storage, urlHistory, phase, effectPending, clock, dataId,
                lastOp, recLog, clearedNoRecord, viewVars>>
testVars == <<testPc, testRes, testSettled>>
chainVars == <<hreq, stage, hbody, nextErr, sends, written>>
handlerVars == <<req, pc, res, providerCalls, forwarded, settled, testVars>>
serverVars == <<handlerVars, chainVars>>
validatorVars == <<vIn, vOut>>
vars == <<clientVars, serverVars, validatorVars>>

(***************************************************************************)
(* Bounds                                                                  *)
(***************************************************************************)
MaxClock == 3          \* Date.now() takes the values 1..MaxClock
MaxPersisted == 11     \* longest list found in localStorage at start
RecLogCap == 11        \* longest run of records that recLog follows

(***************************************************************************)
(* JavaScript values                                                       *)
(***************************************************************************)
Undefined == "undefined"

Min(a, b) == IF a < b THEN a ELSE b
Max(a, b) == IF a < b THEN b ELSE a

\* Array.prototype.slice(from, to) with 0 <= from <= to
Slice(s, from, to) == SubSeq(s, from + 1, Min(to, Len(s)))

\* o.f for a plain object: a missing key reads as undefined
Field(e, f) == IF f \in DOMAIN e THEN e[f] ELSE Undefined

(***************************************************************************)
(* JSON, as far as the history list needs it.  The localStorage item is    *)
(* [kind, json]: absent, a text that does not parse ("garbage"), the text  *)
(* of null, the text of a non-array value ("object"), or the text of an    *)
(* array of entries ("array", with the serialized entries in json).  A JS  *)
(* value is tagged with its type: [type, items].                           *)
(***************************************************************************)
Absent == [kind |-> "absent", json |-> <<>>]      \* getItem() returns null
Garbage == [kind |-> "garbage", json |-> <<>>]    \* e.g. {not json
NullText == [kind |-> "null", json |-> <<>>]      \* null
ObjectText == [kind |-> "object", json |-> <<>>]  \* e.g. {} or 5
ArrayText(json) == [kind |-> "array", json |-> json]

JsArray(items) == [type |-> "array", items |-> items]
JsObject == [type |-> "object", items |-> <<>>]
JsNull == [type |-> "null", items |-> <<>>]
Throws == [type |-> "throws", items |-> <<>>]

IsArray(v) == v.type = "array"

\* the keys of an entry that hold response data and so may be undefined (id is
\* Date.now(), a number)
ResponseKeys == {"rebrandlyId"}

\* JSON.stringify of one entry: keys whose value is undefined are left out
StringifyEntry(e) ==
    [f \in {g \in DOMAIN e : ~(g \in ResponseKeys /\ e[g] = Undefined)} |-> e[f]]

\* JSON.stringify(list)
JSONstringify(items) ==
    ArrayText([i \in 1..Len(items) |-> StringifyEntry(items[i])])

\* JSON.parse(text): the value, or Throws for a SyntaxError
JSONparse(text) ==
    CASE text.kind = "garbage" -> Throws
      [] text.kind = "null" -> JsNull
      [] text.kind = "object" -> JsObject
      [] text.kind = "array" -> JsArray(text.json)

\* localStorage.getItem('urlHistory') || '[]'
GetItemOrEmpty(st) == IF st = Absent THEN JSONstringify(<<>>) ELSE st

\* const savedHistory = JSON.parse(localStorage.getItem('urlHistory') || '[]')
LoadHistory(st) == JSONparse(GetItemOrEmpty(st))

(***************************************************************************)
(* History store                                                           *)
(***************************************************************************)
KeepPrev == 9          \* prev.slice(0, 9)

\* newEntry of shortenUrl; originalUrl, shortUrl, customSlug and createdAt are
\* strings or null, which JSON keeps as they are, and are left out
NewEntry(now, id) == [id |-> now, rebrandlyId |-> id]

\* mutant: the slice keeps 10 previous entries
RecordEntryKeepsTen(prev, e) == <<e>> \o Slice(prev, 0, KeepPrev + 1)

\* prev => [newEntry, ...prev.slice(0, 9)]
RecordEntry(prev, e) == <<e>> \o Slice(prev, 0, KeepPrev)

\* mutant: === in place of !==
KeepItemEqual(item, id) == item.id = id

\* item => item.id !== id
KeepItem(item, id) == item.id # id

\* prev.filter(item => item.id !== id)
FilterHistory(prev, id) == SelectSeq(prev, LAMBDA item : KeepItem(item, id))

\* urlHistory.length > 0 (undefined > 0 is false for a value with no length)
HasEntries(v) == IsArray(v) /\ Len(v.items) > 0

\* mutant: the guard reads length > 1
SaveWriteFromTwo(v, st) ==
    IF IsArray(v) /\ Len(v.items) > 1 THEN JSONstringify(v.items) ELSE st

\* the save effect's write: localStorage.setItem only for a non-empty list
SaveWrite(v, st) == IF HasEntries(v) THEN JSONstringify(v.items) ELSE st

\* mutant: clearAllHistory without removeItem
ClearedStorageKept == storage

\* the persisted record after clearAllHistory
ClearedStorage == Absent

\* urlHistory.length / urlHistory.map in the render and in the save effect
\* throw a TypeError on null
CanRender(v) == v.type \notin {"throws", "null"}

(***************************************************************************)
(* The history store as a state machine                                    *)
(***************************************************************************)
NoOp == [op |-> "none", id |-> 0, src |-> "none"]
Op(name, id, src) == [op |-> name, id |-> id, src |-> src]

LogOff == [on |-> FALSE, log |-> <<>>]
LogEmpty == [on |-> TRUE, log |-> <<>>]
LogAppend(l, e) ==
    IF l.on /\ Len(l.log) < RecLogCap
    THEN [on |-> TRUE, log |-> Append(l.log, e)]
    ELSE LogOff

\* a list left in localStorage by an earlier session: n entries made before
\* this run's clock started
PersistedEntry == [id |-> 0, rebrandlyId |-> "rb0"]
PersistedList(n) == [i \in 1..n |-> PersistedEntry]

PersistedStates ==
    {Absent, Garbage, NullText, ObjectText}
        \cup {ArrayText(PersistedList(n)) : n \in 0..MaxPersisted}

DataIds == {Undefined, "rb"}
Ids == 0..MaxClock

\* the useState initial values of the form, and no fetch started
viewIdle ==
    /\ formUrl = <<>>
    /\ formSlug = <<>>
    /\ shortenedUrl = ""
    /\ isLoading = FALSE
    /\ formError = ""
    /\ apiStatus = "unknown"
    /\ inflight = <<>>
    /\ probes = 0

serverIdle ==
    /\ req = [url |-> [t |-> "undefined", s |-> <<>>],
              customSlug |-> [t |-> "undefined", s |-> <<>>]]
    /\ pc = "idle"
    /\ res = [status |-> 0, code |-> "none", error |-> "", success |-> FALSE]
    /\ providerCalls = 0
    /\ forwarded = [destination |-> <<>>, domain |-> "",
                    slashtag |-> [t |-> "undefined", s |-> <<>>]]
    /\ settled = [kind |-> "pending", status |-> 0, message |-> "undefined"]
    /\ testPc = "idle"
    /\ testRes = [status |-> 0, success |-> FALSE, code |-> "none",
                  account |-> [id |-> "undefined", email |-> "undefined",
                               fullName |-> "undefined",
                               createdAt |-> "undefined"]]
    /\ testSettled = [kind |-> "pending", status |-> 0,
                      data |-> [id |-> "undefined", email |-> "undefined",
                                fullName |-> "undefined",
                                createdAt |-> "undefined",
                                username |-> "undefined"]]
    /\ hreq = [route |-> "none", origin |-> "none", over |-> "none",
               text |-> "none"]
    /\ stage = "idle"
    /\ hbody = [url |-> [t |-> "undefined", s |-> <<>>],
                customSlug |-> [t |-> "undefined", s |-> <<>>]]
    /\ nextErr = [message |-> "", status |-> 0]
    /\ sends = 0
    /\ written = 0

validatorIdle ==
    /\ vIn = [t |-> "undefined", s |-> <<>>]
    /\ vOut = [called |-> FALSE, result |-> FALSE]

InitStore ==
    /\ storage \in PersistedStates
    /\ urlHistory = JsArray(<<>>)          \* useState([])
    /\ phase = "unmounted"
    /\ effectPending = FALSE
    /\ clock = 1
    /\ dataId \in DataIds
    /\ lastOp = NoOp
    /\ recLog = LogOff
    /\ clearedNoRecord = FALSE
    /\ viewIdle
    /\ serverIdle
    /\ validatorIdle

\* mount: the load effect, the save effect on the initial [] (writes nothing),
\* and the render of the loaded value
LoadEffect ==
    /\ phase = "unmounted"
    /\ LET savedHistory == LoadHistory(storage) IN
         IF CanRender(savedHistory)
         THEN /\ urlHistory' = savedHistory
              /\ phase' = "mounted"
              /\ effectPending' = TRUE
         ELSE /\ phase' = "crashed"
              /\ UNCHANGED <<urlHistory, effectPending>>
    /\ UNCHANGED <<storage, clock, dataId>>

Mount ==
    /\ LoadEffect
    /\ recLog' = IF LoadHistory(storage) = JsArray(<<>>) THEN LogEmpty ELSE LogOff
    /\ lastOp' = Op("load", 0, storage.kind)
    /\ UNCHANGED clearedNoRecord
    /\ UNCHANGED <<serverVars, validatorVars, viewVars>>

\* the effect on [urlHistory]
SaveEffect ==
    /\ UNCHANGED <<serverVars, validatorVars, viewVars>>
    /\ phase = "mounted"
    /\ effectPending
    /\ storage' = SaveWrite(urlHistory, storage)
    /\ effectPending' = FALSE
    /\ UNCHANGED <<urlHistory, phase, clock, dataId, lastOp, recLog, clearedNoRecord>>

\* the success branch of shortenUrl: setUrlHistory(prev => [newEntry, ...])
Record ==
    /\ UNCHANGED <<serverVars, validatorVars, viewVars>>
    /\ phase = "mounted"
    /\ ~effectPending
    /\ IF IsArray(urlHistory)
       THEN /\ urlHistory' =
                 JsArray(RecordEntry(urlHistory.items, NewEntry(clock, dataId)))
            /\ effectPending' = TRUE
            /\ UNCHANGED phase
       ELSE /\ phase' = "crashed"          \* prev.slice is not a function
            /\ UNCHANGED <<urlHistory, effectPending>>
    /\ lastOp' = Op("record", clock, "none")
    /\ recLog' = LogAppend(recLog, NewEntry(clock, dataId))
    /\ clearedNoRecord' = FALSE
    /\ UNCHANGED <<storage, clock, dataId>>

\* deleteFromHistory(id)
DeleteFromHistory(id) ==
    /\ phase = "mounted"
    /\ ~effectPending
    /\ IF IsArray(urlHistory)
       THEN LET updated == FilterHistory(urlHistory.items, id) IN
            /\ storage' = JSONstringify(updated)
            /\ urlHistory' = JsArray(updated)
            /\ effectPending' = TRUE
            /\ UNCHANGED phase
       ELSE /\ phase' = "crashed"          \* prev.filter is not a function
            /\ UNCHANGED <<storage, urlHistory, effectPending>>
    /\ UNCHANGED <<clock, dataId>>

Remove(id) ==
    /\ DeleteFromHistory(id)
    /\ lastOp' = Op("remove", id,
                    IF IsArray(urlHistory)
                       /\ \E i \in 1..Len(urlHistory.items) :
                             urlHistory.items[i].id = id
                    THEN "hit" ELSE "miss")
    /\ recLog' = LogOff
    /\ UNCHANGED clearedNoRecord
    /\ UNCHANGED <<serverVars, validatorVars, viewVars>>

\* clearAllHistory()
ClearAllHistory ==
    /\ phase = "mounted"
    /\ ~effectPending
    /\ urlHistory' = JsArray(<<>>)
    /\ storage' = ClearedStorage
    /\ effectPending' = TRUE
    /\ UNCHANGED <<phase, clock, dataId>>

Clear ==
    /\ ClearAllHistory
    /\ lastOp' = Op("clear", 0, "none")
    /\ recLog' = LogEmpty
    /\ clearedNoRecord' = TRUE
    /\ UNCHANGED <<serverVars, validatorVars, viewVars>>

\* time passes
Tick ==
    /\ UNCHANGED <<serverVars, validatorVars, viewVars>>
    /\ clock < MaxClock
    /\ clock' = clock + 1
    /\ UNCHANGED <<storage, urlHistory, phase, effectPending, dataId, lastOp,
                   recLog, clearedNoRecord>>

\* the page is reloaded: a new session with the same localStorage
PageReload ==
    /\ phase # "unmounted"
    /\ phase' = "unmounted"
    /\ urlHistory' = JsArray(<<>>)
    /\ effectPending' = FALSE
    /\ UNCHANGED <<storage, clock, dataId>>

Reload ==
    /\ PageReload
    /\ recLog' = LogOff
    /\ UNCHANGED <<lastOp, clearedNoRecord>>
    /\ UNCHANGED <<serverVars, validatorVars, viewVars>>

NextStore ==
    \/ Mount
    \/ SaveEffect
    \/ Record
    \/ \E id \in Ids : Remove(id)
    \/ Clear
    \/ Tick
    \/ Reload

SpecStore == InitStore /\ [][NextStore]_vars

(***************************************************************************)
(* Strings and request-body values (routes/api.js)                         *)
(*                                                                         *)
(* A string is a sequence.  A value of the JSON body is tagged with its    *)
(* type: a string, undefined (key not sent), null, or a non-zero number.   *)
(***************************************************************************)
Str(s) == [t |-> "string", s |-> s]
Undef == [t |-> "undefined", s |-> <<>>]
Null == [t |-> "null", s |-> <<>>]
Num == [t |-> "number", s |-> <<>>]          \* e.g. 123

IsString(v) == v.t = "string"

\* ToBoolean: "" is falsy, as are undefined and null; 123 is truthy
Truthy(v) ==
    CASE v.t = "string" -> v.s # <<>>
      [] v.t = "number" -> TRUE
      [] OTHER -> FALSE

WhiteSpace == {" ", "\t"}

RECURSIVE TrimStart(_)
TrimStart(s) ==
    IF s # <<>> /\ Head(s) \in WhiteSpace THEN TrimStart(Tail(s)) ELSE s

RECURSIVE TrimEnd(_)
TrimEnd(s) ==
    IF s # <<>> /\ s[Len(s)] \in WhiteSpace
    THEN TrimEnd(SubSeq(s, 1, Len(s) - 1))
    ELSE s

\* String.prototype.trim
Trim(s) == TrimEnd(TrimStart(s))

Rep(c, n) == [i \in 1..n |-> c]

(***************************************************************************)
(* new URL(string), with no base.  A URL string is a sequence of tokens: a *)
(* scheme with its colon ("https:"), "//", blanks, and other text.  The    *)
(* strings considered have no path, query or fragment.                     *)
(***************************************************************************)
SpecialSchemes == {"http:", "https:", "ftp:", "ws:", "wss:"}
OtherSchemes == {"javascript:", "mailto:", "data:"}
Schemes == SpecialSchemes \cup OtherSchemes

RECURSIVE SkipSlashes(_)
SkipSlashes(s) ==
    IF s # <<>> /\ Head(s) = "//" THEN SkipSlashes(Tail(s)) ELSE s

ParseFailure == [ok |-> FALSE, protocol |-> ""]

\* the URL record, or ParseFailure where new URL throws a TypeError
URLParse(string) ==
    LET input == Trim(string) IN       \* leading and trailing blanks are dropped
    IF input = <<>> \/ Head(input) \notin Schemes
    THEN ParseFailure                  \* no scheme and no base
    ELSE IF Head(input) \in SpecialSchemes
    THEN LET host == SkipSlashes(Tail(input)) IN
         IF host = <<>> \/ \E i \in 1..Len(host) : host[i] \in WhiteSpace
         THEN ParseFailure             \* empty host, or a blank in the host
         ELSE [ok |-> TRUE, protocol |-> Head(input)]
    ELSE [ok |-> TRUE, protocol |-> Head(input)]   \* opaque path: anything

\* isValidUrl of routes/api.js: new URL(string) did not throw
isValidUrl(string) == URLParse(string).ok

(***************************************************************************)
(* isValidSlug                                                             *)
(***************************************************************************)
SlugMinLen == 3
SlugMaxLen == 50

Lower == {"a","b","c","d","e","f","g","h","i","j","k","l","m",
          "n","o","p","q","r","s","t","u","v","w","x","y","z"}
Upper == {"A","B","C","D","E","F","G","H","I","J","K","L","M",
          "N","O","P","Q","R","S","T","U","V","W","X","Y","Z"}
Digit == {"0","1","2","3","4","5","6","7","8","9"}

\* /^[a-zA-Z0-9_-]+$/.test(s)
slugRegexTest(s) ==
    /\ Len(s) >= 1
    /\ \A i \in 1..Len(s) : s[i] \in Lower \cup Upper \cup Digit \cup {"_", "-"}

\* mutant: slug.length > 3
LengthInRangeExclusive(n) == n > SlugMinLen /\ n <= SlugMaxLen

\* slug.length >= 3 && slug.length <= 50
LengthInRange(n) == n >= SlugMinLen /\ n <= SlugMaxLen

\* isValidSlug(slug); for a number the regex tests its decimal text and
\* .length is undefined, so the comparisons are false
isValidSlug(slug) ==
    IF ~Truthy(slug) THEN TRUE
    ELSE IF ~IsString(slug) THEN FALSE
    ELSE slugRegexTest(slug.s) /\ LengthInRange(Len(slug.s))

(***************************************************************************)
(* POST /api/shorten                                                       *)
(***************************************************************************)
\* mutant: the slug is checked before the URL is validated
InputCheckSlugFirst(body) ==
    LET url == body.url
        customSlug == body.customSlug
    IN  IF ~Truthy(url) THEN "MISSING_URL"
        ELSE IF ~IsString(url) THEN "TypeError"
        ELSE IF ~Truthy(Str(Trim(url.s))) THEN "MISSING_URL"
        ELSE IF Truthy(customSlug) /\ ~IsString(customSlug) THEN "TypeError"
        ELSE IF Truthy(customSlug) /\ ~isValidSlug(Str(Trim(customSlug.s)))
        THEN "INVALID_SLUG"
        ELSE IF ~isValidUrl(Trim(url.s)) THEN "INVALID_URL"
        ELSE "none"

\* the first failing input check of the handler, "none" when all pass, and
\* "TypeError" where .trim is called on a value that is not a string
InputCheck(body) ==
    LET url == body.url
        customSlug == body.customSlug
    IN  IF ~Truthy(url) THEN "MISSING_URL"
        ELSE IF ~IsString(url) THEN "TypeError"
        ELSE IF ~Truthy(Str(Trim(url.s))) THEN "MISSING_URL"
        ELSE IF ~isValidUrl(Trim(url.s)) THEN "INVALID_URL"
        ELSE IF ~Truthy(customSlug) THEN "none"
        ELSE IF ~IsString(customSlug) THEN "TypeError"
        ELSE IF ~isValidSlug(Str(Trim(customSlug.s))) THEN "INVALID_SLUG"
        ELSE "none"

\* mutant: the return before res.status(400) is missing
LeavesAtNoCheck(check) == FALSE

\* the handler leaves the try block at a failing check (return res.status(400)...
\* or the throw of the TypeError)
LeavesAt(check) == check # "none"

ErrorText(code) ==
    CASE code = "MISSING_URL" -> "URL is required"
      [] code = "INVALID_URL" -> "Please enter a valid URL"
      [] code = "INVALID_SLUG" ->
            "Custom slug must be 3-50 characters and contain only letters, numbers, hyphens, and underscores"
      [] code = "API_KEY_ERROR" -> "Invalid API key or quota exceeded"
      [] code = "RATE_LIMIT" -> "Rate limit exceeded. Please try again later."
      [] code = "TIMEOUT" -> "Request timeout. Please try again."
      [] code = "INTERNAL_ERROR" -> "Failed to shorten URL. Please try again."

NoResponse == [status |-> 0, code |-> "none", error |-> "", success |-> FALSE]
ErrorJson(status, code, error) ==
    [status |-> status, code |-> code, error |-> error, success |-> FALSE]
SuccessJson == [status |-> 200, code |-> "none", error |-> "", success |-> TRUE]

\* res.status(400).json({error, code}) of the input checks
Reject(code) == ErrorJson(400, code, ErrorText(code))

\* rebrandlyData
NoCall == [destination |-> <<>>, domain |-> "", slashtag |-> Undef]

\* variant: the custom slug forwarded as typed
RebrandlyDataRawSlug(body) ==
    [destination |-> Trim(body.url.s),
     domain |-> "rebrand.ly",
     slashtag |-> IF Truthy(body.customSlug)
                     /\ Truthy(Str(Trim(body.customSlug.s)))
                  THEN Str(body.customSlug.s)
                  ELSE Undef]

RebrandlyData(body) ==
    [destination |-> Trim(body.url.s),
     domain |-> "rebrand.ly",
     slashtag |-> IF Truthy(body.customSlug)
                     /\ Truthy(Str(Trim(body.customSlug.s)))
                  THEN Str(Trim(body.customSlug.s))
                  ELSE Undef]

\* what axios.post settles with: a 2xx response, an error carrying the
\* provider's response (status, first field error message if any), a timeout
\* (code ECONNABORTED, no response), or another failure without a response
Ok == [kind |-> "ok", status |-> 200, message |-> Undefined]
Failed(status, message) == [kind |-> "status", status |-> status, message |-> message]
TimedOut == [kind |-> "timeout", status |-> 0, message |-> Undefined]
NoAnswer == [kind |-> "network", status |-> 0, message |-> Undefined]
Pending == [kind |-> "pending", status |-> 0, message |-> Undefined]

Outcomes ==
    {Ok, TimedOut, NoAnswer}
        \cup {Failed(st, Undefined) : st \in {401, 403, 404, 422, 429, 500}}
        \cup {Failed(st, "slashtag already exists") : st \in {403, 422}}
        \cup {Failed(422, "")}

\* a JS string or undefined on the left of ||
TruthyText(m) == m \notin {Undefined, ""}

\* the message of the 422 branch
ValidationMessageGeneric(error) == "Invalid URL or custom slug already exists"

ValidationMessage(error) ==
    IF TruthyText(error.message) THEN error.message
    ELSE "Invalid URL or custom slug already exists"

\* variant: 429 has no branch of its own
CatchResponseNo429(error) ==
    IF error.kind = "status" /\ error.status = 403
    THEN ErrorJson(403, "API_KEY_ERROR", ErrorText("API_KEY_ERROR"))
    ELSE IF error.kind = "status" /\ error.status = 422
    THEN ErrorJson(422, "VALIDATION_ERROR",
                   IF TruthyText(error.message) THEN error.message
                   ELSE "Invalid URL or custom slug already exists")
    ELSE IF error.kind = "timeout"
    THEN ErrorJson(408, "TIMEOUT", ErrorText("TIMEOUT"))
    ELSE ErrorJson(500, "INTERNAL_ERROR", ErrorText("INTERNAL_ERROR"))

\* the catch block
CatchResponse(error) ==
    IF error.kind = "status" /\ error.status = 403
    THEN ErrorJson(403, "API_KEY_ERROR", ErrorText("API_KEY_ERROR"))
    ELSE IF error.kind = "status" /\ error.status = 422
    THEN ErrorJson(422, "VALIDATION_ERROR", ValidationMessage(error))
    ELSE IF error.kind = "status" /\ error.status = 429
    THEN ErrorJson(429, "RATE_LIMIT", ErrorText("RATE_LIMIT"))
    ELSE IF error.kind = "timeout"
    THEN ErrorJson(408, "TIMEOUT", ErrorText("TIMEOUT"))
    ELSE ErrorJson(500, "INTERNAL_ERROR", ErrorText("INTERNAL_ERROR"))

\* a TypeError thrown inside the try block has no response and no code
ThrownTypeError == NoAnswer

\* variant: the catch block calls the provider again after a timeout
CallsAfterRetry(calls, error) ==
    IF error.kind = "timeout" THEN calls + 1 ELSE calls

\* provider calls made once axios.post has settled: neither the success path
\* nor the catch block calls the provider again
CallsAfterSettle(calls, error) == calls

\* request bodies
UrlStrings ==
    { <<>>,
      <<" ">>,
      <<"https:", "//", "example.com">>,
      <<" ", "http:", "//", "example.com", "\t">>,
      <<"ftp:", "//", "example.com">>,
      <<"javascript:", "alert(1)">>,
      <<"mailto:", "a@b.c">>,
      <<"example.com">>,
      <<"not", " ", "a", " ", "url">>,
      <<"https:", "//">>,
      <<"http:", "//", "exa", " ", "mple.com">> }

SlugStrings ==
    { <<>>,
      <<" ">>,
      <<"a", "b">>,
      <<"a", "b", "c">>,
      <<" ", "a", "-", "Z", "_", "9", " ">>,
      <<"a", " ", "b">>,
      <<"a", ".", "b">>,
      Rep("a", SlugMaxLen),
      Rep("a", SlugMaxLen + 1),
      <<" ">> \o Rep("z", SlugMaxLen) \o <<" ">> }

Bodies ==
    [url : {Undef, Null, Num} \cup {Str(u) : u \in UrlStrings},
     customSlug : {Undef, Null, Num} \cup {Str(c) : c \in SlugStrings}]

clientIdle ==
    /\ storage = Absent
    /\ urlHistory = JsArray(<<>>)
    /\ phase = "unmounted"
    /\ effectPending = FALSE
    /\ clock = 1
    /\ dataId = Undefined
    /\ lastOp = NoOp
    /\ recLog = LogOff
    /\ clearedNoRecord = FALSE
    /\ viewIdle

InitProxy ==
    /\ serverIdle
    /\ clientIdle
    /\ validatorIdle

\* the handler up to its first response or to the await of axios.post
Shorten(body) ==
    /\ pc \in {"idle", "responded"}
    /\ req' = body
    /\ LET check == InputCheck(body) IN
         /\ res' = CASE check = "none" -> NoResponse
                     [] check = "TypeError" -> CatchResponse(ThrownTypeError)
                     [] OTHER -> Reject(check)
         /\ IF LeavesAt(check)
            THEN /\ pc' = "responded"
                 /\ providerCalls' = 0
                 /\ forwarded' = NoCall
            ELSE /\ pc' = "awaiting"
                 /\ providerCalls' = 1
                 /\ forwarded' = RebrandlyData(body)
    /\ settled' = Pending
    /\ UNCHANGED <<testVars, chainVars>>
    /\ UNCHANGED <<clientVars, validatorVars>>

\* axios.post settles: the success response or the catch block
ProviderReply(outcome) ==
    /\ pc = "awaiting"
    /\ res' = IF outcome.kind = "ok" THEN SuccessJson ELSE CatchResponse(outcome)
    /\ pc' = "responded"
    /\ providerCalls' = CallsAfterSettle(providerCalls, outcome)
    /\ settled' = outcome
    /\ UNCHANGED <<req, forwarded, testVars, chainVars>>
    /\ UNCHANGED <<clientVars, validatorVars>>

(***************************************************************************)
(* GET /test: the credential probe                                         *)
(***************************************************************************)
\* response.data of GET /account: the provider's account object, which has
\* more fields than the handler passes on
NoData == [id |-> Undefined, email |-> Undefined, fullName |-> Undefined,
           createdAt |-> Undefined, username |-> Undefined]
AccountData ==
    { [id |-> "acc1", email |-> "a@b.c", fullName |-> "A B",
       createdAt |-> "2024-01-01", username |-> "ab"],
      [id |-> "acc2", email |-> "c@d.e", fullName |-> Undefined,
       createdAt |-> "2024-01-02", username |-> "cd"] }

\* what axios.get settles with
AccountOk(data) == [kind |-> "ok", status |-> 200, data |-> data]
AccountFailed(status) == [kind |-> "status", status |-> status, data |-> NoData]
AccountTimedOut == [kind |-> "timeout", status |-> 0, data |-> NoData]
AccountNoAnswer == [kind |-> "network", status |-> 0, data |-> NoData]
AccountPending == [kind |-> "pending", status |-> 0, data |-> NoData]

AccountOutcomes ==
    {AccountOk(d) : d \in AccountData}
        \cup {AccountFailed(st) : st \in {401, 403, 404, 422, 429, 500}}
        \cup {AccountTimedOut, AccountNoAnswer}

\* account: { id, email, fullName, createdAt }
NoAccount == [id |-> Undefined, email |-> Undefined, fullName |-> Undefined,
              createdAt |-> Undefined]
AccountOf(data) ==
    [id |-> data.id, email |-> data.email, fullName |-> data.fullName,
     createdAt |-> data.createdAt]

\* variant: every provider status answer counts as a bad key
TestCodeAnyStatus(error) ==
    IF error.kind = "status" THEN "INVALID_API_KEY" ELSE "TEST_FAILED"

\* code: error.response?.status === 403 ? 'INVALID_API_KEY' : 'TEST_FAILED'
TestCode(error) ==
    IF error.kind = "status" /\ error.status = 403
    THEN "INVALID_API_KEY" ELSE "TEST_FAILED"

NoTestResponse == [status |-> 0, success |-> FALSE, code |-> "none",
                   account |-> NoAccount]
TestResponse(outcome) ==
    IF outcome.kind = "ok"
    THEN [status |-> 200, success |-> TRUE, code |-> "none",
          account |-> AccountOf(outcome.data)]
    ELSE [status |-> 500, success |-> FALSE, code |-> TestCode(outcome),
          account |-> NoAccount]

\* the handler up to the await of axios.get
TestKey ==
    /\ testPc \in {"idle", "responded"}
    /\ testPc' = "awaiting"
    /\ testRes' = NoTestResponse
    /\ testSettled' = AccountPending
    /\ UNCHANGED <<req, pc, res, providerCalls, forwarded, settled, chainVars>>
    /\ UNCHANGED <<clientVars, validatorVars>>

\* axios.get settles: the success response or the catch block
AccountReply(outcome) ==
    /\ testPc = "awaiting"
    /\ testRes' = TestResponse(outcome)
    /\ testPc' = "responded"
    /\ testSettled' = outcome
    /\ UNCHANGED <<req, pc, res, providerCalls, forwarded, settled, chainVars>>
    /\ UNCHANGED <<clientVars, validatorVars>>

NextProxy ==
    \/ \E body \in Bodies : Shorten(body)
    \/ \E outcome \in Outcomes : ProviderReply(outcome)
    \/ TestKey
    \/ \E outcome \in AccountOutcomes : AccountReply(outcome)

SpecProxy == InitProxy /\ [][NextProxy]_vars

(***************************************************************************)
(* The middleware chain of server.js, one request at a time: cors, the two *)
(* rate limiters, express.json with its verify callback, the routes, the   *)
(* error handler and the 404 handler.  compression, helmet, urlencoded and *)
(* the logger pass every request on and are left out.  sends counts the    *)
(* calls that write a response (res.json, res.send, res.end); once the     *)
(* headers are sent such a call throws ERR_HTTP_HEADERS_SENT.              *)
(***************************************************************************)
Routes ==
    {"POST /api/shorten", "GET /api/test", "GET /api/stats", "GET /health",
     "GET /nowhere", "POST /nowhere", "OPTIONS /api/shorten"}

\* the parser's own parse (strict) throws; the empty text parses to {}
ParserThrows(text) == text \in {"invalid", "primitive"}
ParsedBody(text) ==
    IF text = "object"
    THEN [url |-> Str(<<"https:", "//", "example.com">>), customSlug |-> Undef]
    ELSE [url |-> Undef, customSlug |-> Undef]

\* origin: the Origin header is absent, one of allowedOrigins, another one;
\* over: the rate limit the request exceeds; text: the body sent with
\* Content-Type application/json: "none" (no JSON body),
\* {"url":"https://example.com"}, {}, {bad, the empty text, 5
Requests ==
    {r \in [route : Routes, origin : {"none", "allowed", "other"},
            over : {"none", "general", "shorten"},
            text : {"none", "object", "nourl", "invalid", "empty",
                    "primitive"}] :
        r.text # "none" => r.route \in {"POST /api/shorten", "POST /nowhere"}}

\* the status the error handler answers with
ErrorStatus(err) ==
    IF err.message = "Not allowed by CORS" THEN 403
    ELSE IF err.status = 429 THEN 429
    ELSE IF err.status # 0 THEN err.status
    ELSE 500

\* verify: answers 400 'Invalid JSON' when JSON.parse(buf) throws, and returns
VerifySends(text) == IF text \in {"invalid", "empty"} THEN 1 ELSE 0

\* n calls that write a response, the first of them with the given status
Write(n, status) ==
    /\ sends' = sends + n
    /\ written' = IF written = 0 /\ n > 0 THEN status ELSE written

\* a request arrives
Receive(r) ==
    /\ stage \in {"idle", "done"}
    /\ hreq' = r
    /\ stage' = "cors"
    /\ hbody' = ParsedBody("none")
    /\ nextErr' = [message |-> "", status |-> 0]
    /\ sends' = 0
    /\ written' = 0
    /\ UNCHANGED <<handlerVars, clientVars, validatorVars>>

\* cors(corsOptions): the origin callback, and the answer to a preflight
Cors ==
    /\ stage = "cors"
    /\ IF hreq.origin = "other"
       THEN /\ nextErr' = [message |-> "Not allowed by CORS", status |-> 0]
            /\ stage' = "error"
            /\ UNCHANGED <<sends, written>>
       ELSE IF hreq.route = "OPTIONS /api/shorten"
       THEN /\ Write(1, 200)
            /\ stage' = "done"
            /\ UNCHANGED nextErr
       ELSE /\ stage' = "general"
            /\ UNCHANGED <<nextErr, sends, written>>
    /\ UNCHANGED <<hreq, hbody, handlerVars, clientVars, validatorVars>>

\* app.use('/api/', generalLimiter)
GeneralLimiter ==
    /\ stage = "general"
    /\ IF hreq.route \notin {"GET /health", "GET /nowhere", "POST /nowhere"}
          /\ hreq.over = "general"
       THEN /\ Write(1, 429)
            /\ stage' = "done"
       ELSE /\ stage' = "shorten"
            /\ UNCHANGED <<sends, written>>
    /\ UNCHANGED <<hreq, hbody, nextErr, handlerVars, clientVars, validatorVars>>

\* app.use('/api/shorten', shortenLimiter)
ShortenLimiter ==
    /\ stage = "shorten"
    /\ IF hreq.route \in {"POST /api/shorten", "OPTIONS /api/shorten"}
          /\ hreq.over = "shorten"
       THEN /\ Write(1, 429)
            /\ stage' = "done"
       ELSE /\ stage' = "json"
            /\ UNCHANGED <<sends, written>>
    /\ UNCHANGED <<hreq, hbody, nextErr, handlerVars, clientVars, validatorVars>>

\* express.json({verify}): the body is read, verify is called, and since
\* verify returns the parser goes on to parse the body itself
JsonParser ==
    /\ stage = "json"
    /\ IF hreq.text = "none"
       THEN /\ stage' = "route"
            /\ UNCHANGED <<hbody, nextErr, sends, written>>
       ELSE /\ Write(VerifySends(hreq.text), 400)
            /\ IF ParserThrows(hreq.text)
               THEN /\ nextErr' = [message |-> "Unexpected token",
                                  status |-> 400]
                    /\ stage' = "error"
                    /\ UNCHANGED hbody
               ELSE /\ hbody' = ParsedBody(hreq.text)
                    /\ stage' = "route"
                    /\ UNCHANGED nextErr
    /\ UNCHANGED <<hreq, handlerVars, clientVars, validatorVars>>

\* app.get('/health')
Health ==
    /\ stage = "route"
    /\ hreq.route = "GET /health"
    /\ Write(1, 200)
    /\ stage' = "done"
    /\ UNCHANGED <<hreq, hbody, nextErr, handlerVars, clientVars, validatorVars>>

\* router.post('/shorten') up to its first response or to the await: a
\* res.json that throws inside the try block lands in the catch block, whose
\* res.json throws as well
ApiShorten ==
    /\ stage = "route"
    /\ hreq.route = "POST /api/shorten"
    /\ LET check == InputCheck(hbody) IN
         IF LeavesAt(check)
         THEN /\ Write(IF written # 0 /\ check # "TypeError" THEN 2 ELSE 1,
                       IF check = "TypeError"
                       THEN CatchResponse(ThrownTypeError).status
                       ELSE Reject(check).status)
              /\ stage' = "done"
         ELSE /\ stage' = "awaiting"
              /\ UNCHANGED <<sends, written>>
    /\ UNCHANGED <<hreq, hbody, nextErr, handlerVars, clientVars, validatorVars>>

\* router.get('/test'), router.get('/stats') up to the await
ApiAccount ==
    /\ stage = "route"
    /\ hreq.route \in {"GET /api/test", "GET /api/stats"}
    /\ stage' = "awaiting"
    /\ UNCHANGED <<hreq, hbody, nextErr, sends, written>>
    /\ UNCHANGED <<handlerVars, clientVars, validatorVars>>

\* the provider call of the route settles: res.json, or the catch block
HandlerSettles(ok) ==
    /\ stage = "awaiting"
    /\ Write(IF written # 0 /\ ok THEN 2 ELSE 1,
             IF ok THEN 200
             ELSE IF hreq.route = "POST /api/shorten"
             THEN CatchResponse(NoAnswer).status
             ELSE 500)
    /\ stage' = "done"
    /\ UNCHANGED <<hreq, hbody, nextErr, handlerVars, clientVars, validatorVars>>

\* app.use((err, req, res, next) => ...)
ErrorHandler ==
    /\ stage = "error"
    /\ Write(1, ErrorStatus(nextErr))
    /\ stage' = "done"
    /\ UNCHANGED <<hreq, hbody, nextErr, handlerVars, clientVars, validatorVars>>

\* app.use('*', ...): no route matched
NotFound ==
    /\ stage = "route"
    /\ hreq.route \in {"GET /nowhere", "POST /nowhere"}
    /\ Write(1, 404)
    /\ stage' = "done"
    /\ UNCHANGED <<hreq, hbody, nextErr, handlerVars, clientVars, validatorVars>>

NextChain ==
    \/ \E r \in Requests : Receive(r)
    \/ Cors
    \/ GeneralLimiter
    \/ ShortenLimiter
    \/ JsonParser
    \/ Health
    \/ ApiShorten
    \/ ApiAccount
    \/ \E ok \in BOOLEAN : HandlerSettles(ok)
    \/ ErrorHandler
    \/ NotFound

SpecChain == InitProxy /\ [][NextChain]_vars

(***************************************************************************)
(* The validators applied to arguments of every length                     *)
(***************************************************************************)
MaxSlugInput == 52     \* longest slug argument

SlugAlphabet == {"a", "Z", "5", "_", "-", " ", "."}

SlugArguments ==
    {Undef, Null, Num}
        \cup {Str(Rep(c, n)) : c \in SlugAlphabet, n \in 0..MaxSlugInput}
        \cup {Str(Rep("a", n) \o <<c>>) : c \in SlugAlphabet, n \in 0..(MaxSlugInput - 1)}
        \cup {Str(<<c>> \o Rep("b", n)) : c \in SlugAlphabet, n \in 0..(MaxSlugInput - 1)}

NotCalled == [called |-> FALSE, result |-> FALSE]
Returned(b) == [called |-> TRUE, result |-> b]

InitValidator ==
    /\ vIn \in SlugArguments
    /\ vOut = NotCalled
    /\ serverIdle
    /\ clientIdle

CallIsValidSlug ==
    /\ ~vOut.called
    /\ vOut' = Returned(isValidSlug(vIn))
    /\ UNCHANGED <<vIn, clientVars, serverVars>>

NextValidator == CallIsValidSlug

SpecValidator == InitValidator /\ [][NextValidator]_vars

(***************************************************************************)
(* The form of URLShortener.jsx: inputs, submit button, status badge, the  *)
(* shorten request and the credential probe.  A state is a committed       *)
(* render: the updates a handler makes are rendered before the next event  *)
(* is handled, and a pending [urlHistory] effect runs first.  The backend  *)
(* is a source of responses.                                               *)
(***************************************************************************)
MaxViewHistory == 3    \* the backend answers success while the list is shorter
MaxProbes == 1         \* credential probes in flight at once

historyVars == <<storage, urlHistory, phase, effectPending, clock, dataId>>
ghostVars == <<lastOp, recLog, clearedNoRecord>>

\* texts typed into the URL input and into the slug input
UrlTexts ==
    { <<>>,
      <<"example.com">>,
      <<" ", "http:", "//", "example.com">>,
      <<"exa", " ", "mple.com">> }
SlugTexts == { <<>>, <<" ", "a", "b", "c">> }

\* isValidUrl of URLShortener.jsx
isValidUrlClient(string) ==
    LET parsed == URLParse(string) IN
    parsed.ok /\ parsed.protocol \in {"http:", "https:"}

\* fullUrl.match(/^https?:\/\//)
HasHttpPrefix(s) ==
    /\ Len(s) >= 2
    /\ s[1] \in {"http:", "https:"}
    /\ s[2] = "//"

\* fullUrl
FullUrl(text) ==
    LET trimmed == Trim(text) IN
    IF HasHttpPrefix(trimmed) THEN trimmed ELSE <<"https:", "//">> \o trimmed

\* the message of the check that makes shortenUrl return early, "" if none
ClientCheck(text) ==
    IF Trim(text) = <<>> THEN "Please enter a URL"
    ELSE IF ~isValidUrlClient(FullUrl(text)) THEN "Please enter a valid URL"
    ELSE ""

\* body of fetch('/api/shorten')
RequestBody(text, slug) ==
    [url |-> Str(FullUrl(text)),
     customSlug |-> IF Trim(slug) # <<>> THEN Str(Trim(slug)) ELSE Undef]

\* a call in flight: its body, and (history fields) what isLoading and the
\* badge were when the handler ran
Request ==
    [body |-> RequestBody(formUrl, formSlug),
     loading |-> isLoading, badge |-> apiStatus]

\* what fetch and response.json() settle with: a 2xx response with success
\* true and the short link, a non-2xx response with or without data.error, a
\* 2xx response without success, a body that is not JSON, a rejected fetch
ShortUrl == "https://rebrand.ly/abc"
Served == [kind |-> "ok", message |-> Undefined]
HttpError(message) == [kind |-> "http", message |-> message]
NotSuccess == [kind |-> "nosuccess", message |-> Undefined]
BadBody == [kind |-> "badjson", message |-> Undefined]
NetworkError == [kind |-> "network", message |-> Undefined]

Responses ==
    {Served, NotSuccess, BadBody, NetworkError, HttpError(Undefined)}
        \cup {HttpError(ErrorText("API_KEY_ERROR")),
              HttpError("Invalid URL or custom slug already exists")}

\* err.message in the catch block
ThrownMessage(r) ==
    CASE r.kind = "http" ->
            IF TruthyText(r.message) THEN r.message ELSE "Failed to shorten URL"
      [] r.kind = "nosuccess" -> "Failed to shorten URL"
      [] r.kind = "badjson" -> "Unexpected token < in JSON at position 0"
      [] r.kind = "network" -> "Failed to fetch"

\* err.message.includes(part), for the messages above
Includes(message, part) ==
    CASE part = "quota exceeded" ->
            message \in {"Invalid API key or quota exceeded"}
      [] part = "already exists" ->
            message \in {"Invalid URL or custom slug already exists"}
      [] part = "Invalid URL" ->
            message \in {"Invalid URL or custom slug already exists"}

\* the text the catch block passes to setError
CatchMessage(message) ==
    IF Includes(message, "quota exceeded")
    THEN "Monthly quota exceeded. Please try again next month or upgrade your plan."
    ELSE IF Includes(message, "already exists")
    THEN "This custom slug is already taken. Please try a different one."
    ELSE IF Includes(message, "Invalid URL")
    THEN "Please enter a valid URL starting with http:// or https://"
    ELSE IF TruthyText(message) THEN message
    ELSE "Failed to shorten URL. Please try again."

\* disabled={isLoading} of both inputs
InputEnabled == ~isLoading

\* variant: the button is disabled by the badge alone
ButtonEnabledWhileLoading == ~(apiStatus = "error")

\* disabled={isLoading || apiStatus === 'error'} of the submit button
ButtonEnabled == ~(isLoading \/ apiStatus = "error")

\* e.key === 'Enter' && !isLoading, for the Enter key
EnterSubmits == ~isLoading

\* variant: setIsLoading(false) at the end of the try block
LoadingAfterTry(r) == r.kind # "ok"

\* finally { setIsLoading(false) }
LoadingAfter(r) == FALSE

\* variant: an entry is added whatever the response
HistoryAfterAny(prev, r, now, id) == RecordEntry(prev, NewEntry(now, id))

\* the list after the response: setUrlHistory is called in the success branch
HistoryAfter(prev, r, now, id) ==
    IF r.kind = "ok" THEN RecordEntry(prev, NewEntry(now, id)) ELSE prev

\* setApiStatus of testApiConnection: data.success, no data.success, or a
\* rejected fetch or response.json()
ProbeResults == {"success", "failure", "rejected"}
ProbeStatus(result) == IF result = "success" THEN "connected" ELSE "error"

InitView ==
    /\ storage \in {Absent, ArrayText(PersistedList(1))}
    /\ urlHistory = JsArray(<<>>)
    /\ phase = "unmounted"
    /\ effectPending = FALSE
    /\ clock = 1
    /\ dataId = "rb"
    /\ lastOp = NoOp
    /\ recLog = LogOff
    /\ clearedNoRecord = FALSE
    /\ viewIdle
    /\ serverIdle
    /\ validatorIdle

\* mount: the load effect and testApiConnection()
ViewMount ==
    /\ LoadEffect
    /\ probes' = 1
    /\ UNCHANGED <<formUrl, formSlug, shortenedUrl, isLoading, formError,
                   apiStatus, inflight>>
    /\ UNCHANGED <<ghostVars, serverVars, validatorVars>>

\* the page is reloaded: the form starts again and its fetches are dropped
ViewReload ==
    /\ PageReload
    /\ formUrl' = <<>>
    /\ formSlug' = <<>>
    /\ shortenedUrl' = ""
    /\ isLoading' = FALSE
    /\ formError' = ""
    /\ apiStatus' = "unknown"
    /\ inflight' = <<>>
    /\ probes' = 0
    /\ UNCHANGED <<ghostVars, serverVars, validatorVars>>

\* onChange of the URL input
TypeUrl(text) ==
    /\ phase = "mounted"
    /\ ~effectPending
    /\ InputEnabled
    /\ text # formUrl
    /\ formUrl' = text
    /\ UNCHANGED <<formSlug, shortenedUrl, isLoading, formError, apiStatus,
                   inflight, probes>>
    /\ UNCHANGED <<historyVars, ghostVars, serverVars, validatorVars>>

\* onChange of the slug input
TypeSlug(text) ==
    /\ phase = "mounted"
    /\ ~effectPending
    /\ InputEnabled
    /\ text # formSlug
    /\ formSlug' = text
    /\ UNCHANGED <<formUrl, shortenedUrl, isLoading, formError, apiStatus,
                   inflight, probes>>
    /\ UNCHANGED <<historyVars, ghostVars, serverVars, validatorVars>>

\* shortenUrl up to its early return or to the await of fetch
ShortenUrl ==
    /\ IF ClientCheck(formUrl) # ""
       THEN /\ formError' = ClientCheck(formUrl)
            /\ UNCHANGED <<shortenedUrl, isLoading, inflight>>
       ELSE /\ isLoading' = TRUE
            /\ formError' = ""
            /\ shortenedUrl' = ""
            /\ inflight' = Append(inflight, Request)
    /\ UNCHANGED <<formUrl, formSlug, apiStatus, probes>>
    /\ UNCHANGED <<historyVars, ghostVars, serverVars, validatorVars>>

\* onClick of the submit button
ClickShorten ==
    /\ phase = "mounted"
    /\ ~effectPending
    /\ ButtonEnabled
    /\ ShortenUrl

\* onKeyPress of either input, with the Enter key
PressEnter ==
    /\ phase = "mounted"
    /\ ~effectPending
    /\ InputEnabled
    /\ EnterSubmits
    /\ ShortenUrl

\* the rest of shortenUrl: the i-th call in flight settles with r
SettleAt(i, r) ==
    /\ phase = "mounted"
    /\ ~effectPending
    /\ (r.kind = "ok" /\ IsArray(urlHistory)) =>
          Len(urlHistory.items) < MaxViewHistory
    /\ inflight' = SubSeq(inflight, 1, i - 1) \o SubSeq(inflight, i + 1, Len(inflight))
    /\ shortenedUrl' = IF r.kind = "ok" THEN ShortUrl ELSE shortenedUrl
    /\ formError' = IF r.kind = "ok" THEN formError
                    ELSE CatchMessage(ThrownMessage(r))
    /\ isLoading' = LoadingAfter(r)
    /\ IF IsArray(urlHistory)
       THEN /\ urlHistory' =
                 JsArray(HistoryAfter(urlHistory.items, r, clock, dataId))
            /\ effectPending' = (r.kind = "ok")
            /\ UNCHANGED phase
       ELSE /\ phase' = IF r.kind = "ok" THEN "crashed" ELSE phase
            /\ UNCHANGED <<urlHistory, effectPending>>
    /\ UNCHANGED <<formUrl, formSlug, apiStatus, probes>>
    /\ UNCHANGED <<storage, clock, dataId, ghostVars, serverVars, validatorVars>>

\* the calls in flight settle in any order
Settle(r) == \E i \in 1..Len(inflight) : SettleAt(i, r)

\* the rest of testApiConnection
ProbeSettle(result) ==
    /\ phase = "mounted"
    /\ ~effectPending
    /\ probes > 0
    /\ probes' = probes - 1
    /\ apiStatus' = ProbeStatus(result)
    /\ UNCHANGED <<formUrl, formSlug, shortenedUrl, isLoading, formError,
                   inflight>>
    /\ UNCHANGED <<historyVars, ghostVars, serverVars, validatorVars>>

\* onClick of the retry button of the API error alert
RetryProbe ==
    /\ phase = "mounted"
    /\ ~effectPending
    /\ apiStatus = "error"
    /\ probes < MaxProbes
    /\ probes' = probes + 1
    /\ UNCHANGED <<formUrl, formSlug, shortenedUrl, isLoading, formError,
                   apiStatus, inflight>>
    /\ UNCHANGED <<historyVars, ghostVars, serverVars, validatorVars>>

\* resetForm, the button of the result panel
ResetForm ==
    /\ phase = "mounted"
    /\ ~effectPending
    /\ shortenedUrl # ""
    /\ formUrl' = <<>>
    /\ formSlug' = <<>>
    /\ shortenedUrl' = ""
    /\ formError' = ""
    /\ UNCHANGED <<isLoading, apiStatus, inflight, probes>>
    /\ UNCHANGED <<historyVars, ghostVars, serverVars, validatorVars>>

\* onClick of the delete button of a rendered entry
ClickDelete(id) ==
    /\ IsArray(urlHistory)
    /\ \E i \in 1..Len(urlHistory.items) : urlHistory.items[i].id = id
    /\ DeleteFromHistory(id)
    /\ UNCHANGED <<viewVars, ghostVars, serverVars, validatorVars>>

\* onClick of the clear button, rendered when the list has entries
ClickClearAll ==
    /\ HasEntries(urlHistory)
    /\ ClearAllHistory
    /\ UNCHANGED <<viewVars, ghostVars, serverVars, validatorVars>>

NextView ==
    \/ ViewMount
    \/ SaveEffect
    \/ Tick
    \/ ViewReload
    \/ \E text \in UrlTexts : TypeUrl(text)
    \/ \E text \in SlugTexts : TypeSlug(text)
    \/ ClickShorten
    \/ PressEnter
    \/ \E r \in Responses : Settle(r)
    \/ \E result \in ProbeResults : ProbeSettle(result)
    \/ RetryProbe
    \/ ResetForm
    \/ \E id \in Ids : ClickDelete(id)
    \/ ClickClearAll

SpecView == InitView /\ [][NextView]_vars

\* every fetch settles and every scheduled effect runs
SpecViewFair ==
    /\ SpecView
    /\ WF_vars(SaveEffect)
    /\ SF_vars(\E r \in Responses : Settle(r))

(***************************************************************************)
(* Claims about the history store (under SpecStore)                        *)
(***************************************************************************)
Reverse(s) == [i \in 1..Len(s) |-> s[Len(s) + 1 - i]]
LastN(s, n) == SubSeq(s, Max(1, Len(s) - n + 1), Len(s))

EntryKeys == {"id", "rebrandlyId"}
SameEntries(a, b) ==
    /\ Len(a) = Len(b)
    /\ \A i \in 1..Len(a) : \A f \in EntryKeys : Field(a[i], f) = Field(b[i], f)
SameValue(v, w) == v.type = w.type /\ SameEntries(v.items, w.items)

\* a step of the named operation on a list (the operation sets effectPending)
StepOf(name) ==
    /\ IsArray(urlHistory)
    /\ ~effectPending
    /\ effectPending'
    /\ lastOp'.op = name

RECURSIVE Without(_, _)
Without(list, id) ==
    IF list = <<>> THEN <<>>
    ELSE IF Head(list).id = id THEN Without(Tail(list), id)
    ELSE <<Head(list)>> \o Without(Tail(list), id)

HasId(list, id) == \E i \in 1..Len(list) : list[i].id = id

\* C1: in every state reached after load by record, remove and clear, whatever
\* list was persisted before load, the in-memory history list holds at most 10
\* entries.
C1_AtMostTen ==
    (phase = "mounted" /\ IsArray(urlHistory)) => Len(urlHistory.items) <= 10

\* C2: recording an entry e on a history list L yields e followed by the first
\* 9 entries of L in their previous order; hence after a run of records that
\* started from an empty store the list is the 10 most recent entries, newest
\* first (with 11 records the oldest is evicted).
C2_RecordPrepends ==
    /\ [][StepOf("record") =>
            /\ IsArray(urlHistory')
            /\ Len(urlHistory'.items) = Min(Len(urlHistory.items), 9) + 1
            /\ urlHistory'.items[1].id = clock
            /\ Field(urlHistory'.items[1], "rebrandlyId") = dataId
            /\ \A i \in 1..Min(Len(urlHistory.items), 9) :
                   urlHistory'.items[i + 1] = urlHistory.items[i]]_vars
    /\ [](recLog.on =>
            /\ phase = "mounted"
            /\ IsArray(urlHistory)
            /\ urlHistory.items = Reverse(LastN(recLog.log, 10)))

C2_Witness ==
    /\ recLog.on
    /\ Len(recLog.log) = 11
    /\ lastOp.op = "record"
    /\ Len(urlHistory.items) = 10
    /\ recLog.log[1].id # recLog.log[2].id
    /\ urlHistory.items[10] = recLog.log[2]
    /\ urlHistory.items[1] = recLog.log[11]

\* C3: remove(id) with an id that no entry has leaves the list unchanged and
\* raises no error; remove(id) with an id that is present deletes the entries
\* with that id and leaves every other entry, and their order, unchanged.
C3_RemoveFrame ==
    [][StepOf("remove") =>
         /\ phase' = "mounted"
         /\ IsArray(urlHistory')
         /\ ~HasId(urlHistory.items, lastOp'.id) =>
                urlHistory'.items = urlHistory.items
         /\ ~HasId(urlHistory'.items, lastOp'.id)
         /\ urlHistory'.items = Without(urlHistory.items, lastOp'.id)]_vars

C3_Witness ==
    /\ lastOp.op = "remove"
    /\ lastOp.src = "hit"
    /\ phase = "mounted"
    /\ Len(urlHistory.items) >= 2
    /\ urlHistory.items[1].id # urlHistory.items[2].id
    /\ ~HasId(urlHistory.items, lastOp.id)

C3_WitnessAbsent ==
    /\ lastOp.op = "remove"
    /\ lastOp.src = "miss"
    /\ phase = "mounted"
    /\ Len(urlHistory.items) >= 2

C5_LoadTolerant ==
    (lastOp.op = "load" /\ lastOp.src \in {"absent", "garbage", "null", "object"})
        => /\ phase # "crashed"
           /\ phase = "mounted" => urlHistory = JsArray(<<>>)

\* C6: once an operation has settled (state update and save effect applied),
\* a load returns exactly the current in-memory history.
C6_PersistedAgrees ==
    (phase = "mounted" /\ ~effectPending)
        => SameValue(LoadHistory(storage), urlHistory)

C6_Witness ==
    /\ phase = "mounted"
    /\ ~effectPending
    /\ lastOp.op = "record"
    /\ Len(urlHistory.items) >= 2
    /\ Field(urlHistory.items[1], "rebrandlyId") = Undefined
    /\ "rebrandlyId" \in DOMAIN urlHistory.items[1]
    /\ "rebrandlyId" \notin DOMAIN storage.json[1]

(***************************************************************************)
(* Claims about POST /api/shorten (under SpecProxy)                        *)
(***************************************************************************)
InputCodes == {"MISSING_URL", "INVALID_URL", "INVALID_SLUG"}

\* the body is what the contract allows: strings, or the key left out
StringOrAbsent(v) == v.t \in {"string", "undefined", "null"}

\* C7: the input checks run in a fixed order and the first failing one decides
\* the rejection: MISSING_URL when the URL is absent or empty after trimming,
\* otherwise INVALID_URL when the trimmed URL fails the proxy's URL validation,
\* otherwise INVALID_SLUG when a custom slug is present and its trimmed value
\* fails slug validation; each rejection has status 400.
C7_ChecksInOrder ==
    (pc # "idle" /\ StringOrAbsent(req.url) /\ StringOrAbsent(req.customSlug)) =>
        LET missing == ~IsString(req.url) \/ Trim(req.url.s) = <<>>
            badUrl == ~missing /\ ~isValidUrl(Trim(req.url.s))
            badSlug == /\ ~missing
                       /\ ~badUrl
                       /\ IsString(req.customSlug)
                       /\ ~isValidSlug(Str(Trim(req.customSlug.s)))
        IN  /\ res.code = "MISSING_URL" <=> missing
            /\ res.code = "INVALID_URL" <=> badUrl
            /\ res.code = "INVALID_SLUG" <=> badSlug
            /\ res.code \in InputCodes => res.status = 400 /\ pc = "responded"
            /\ ~(missing \/ badUrl \/ badSlug) => providerCalls = 1

C7_Witness ==
    /\ pc = "responded"
    /\ res.code = "INVALID_URL"
    /\ res.status = 400
    /\ IsString(req.customSlug)
    /\ ~isValidSlug(Str(Trim(req.customSlug.s)))

\* C8: a request answered with MISSING_URL, INVALID_URL or INVALID_SLUG made no
\* call to the provider.
C8_NoCallOnReject ==
    res.code \in InputCodes => providerCalls = 0 /\ forwarded = NoCall

C8_Witness ==
    /\ pc = "responded"
    /\ res.code = "INVALID_SLUG"
    /\ providerCalls = 0
    /\ isValidUrl(Trim(req.url.s))

\* C9: a request whose trimmed URL parses as an absolute URL with a scheme
\* other than http or https is rejected with INVALID_URL and never forwarded.
C9_OnlyHttpAccepted ==
    (/\ pc # "idle"
     /\ IsString(req.url)
     /\ URLParse(Trim(req.url.s)).ok
     /\ URLParse(Trim(req.url.s)).protocol \notin {"http:", "https:"})
        => res.code = "INVALID_URL" /\ providerCalls = 0

(***************************************************************************)
(* Claims about the validators (under SpecValidator)                       *)
(***************************************************************************)
\* C10: isValidSlug accepts a non-empty string exactly when every character is
\* in [A-Za-z0-9_-] and its length is between 3 and 50 (so length 2, length 51
\* and a string with a blank or a '.' are rejected); the absent or empty slug
\* is accepted.
C10_SlugRule ==
    (vOut.called /\ StringOrAbsent(vIn)) =>
        LET s == vIn.s
            n == Len(s)
            wellFormed ==
                \A i \in 1..n : s[i] \in Lower \cup Upper \cup Digit \cup {"_", "-"}
        IN  /\ (~IsString(vIn) \/ n = 0) => vOut.result
            /\ n > 0 => (vOut.result <=> (wellFormed /\ 3 <= n /\ n <= 50))
            /\ n \in {1, 2, 51} => ~vOut.result
            /\ (\E i \in 1..n : s[i] \in {" ", "."}) => ~vOut.result

C10_Witness ==
    /\ vOut.called
    /\ vOut.result
    /\ IsString(vIn)
    /\ Len(vIn.s) = 50
    /\ vIn.s[50] = "_"

C10_WitnessLow ==
    /\ vOut.called
    /\ vOut.result
    /\ IsString(vIn)
    /\ Len(vIn.s) = 3
    /\ vIn.s[1] = "-"

C10_WitnessReject ==
    /\ vOut.called
    /\ ~vOut.result
    /\ Len(vIn.s) = 51
    /\ \A i \in 1..51 : vIn.s[i] = "5"


(***************************************************************************)
(* Claims about the proxy's create-link call and its failure mapping       *)
(***************************************************************************)
SlugChars == Lower \cup Upper \cup Digit \cup {"_", "-"}

\* C11: every create-link request forwarded to the provider has the trimmed
\* input URL as destination and the fixed default short domain; it carries a
\* slug exactly when the custom slug is non-empty after trimming, that slug is
\* the trimmed custom slug, and it is 3-50 characters over [A-Za-z0-9_-]
C11_ForwardedRequest ==
    providerCalls >= 1 =>
        /\ forwarded.destination = Trim(req.url.s)
        /\ forwarded.domain = "rebrand.ly"
        /\ (forwarded.slashtag.t = "string")
              <=> (req.customSlug.t = "string" /\ Trim(req.customSlug.s) # <<>>)
        /\ forwarded.slashtag.t # "string" => forwarded.slashtag = Undef
        /\ forwarded.slashtag.t = "string" =>
              /\ forwarded.slashtag.s = Trim(req.customSlug.s)
              /\ Len(forwarded.slashtag.s) >= 3
              /\ Len(forwarded.slashtag.s) <= 50
              /\ \A i \in 1..Len(forwarded.slashtag.s) :
                    forwarded.slashtag.s[i] \in SlugChars

\* a request was forwarded whose URL and custom slug both had surrounding
\* white space, with a slug of the greatest length
C11_Witness ==
    /\ providerCalls = 1
    /\ forwarded.slashtag.t = "string"
    /\ Len(forwarded.slashtag.s) = 50
    /\ req.customSlug.s # forwarded.slashtag.s
    /\ req.url.s # forwarded.destination

\* a request was forwarded without a slug although customSlug was a string
C11_WitnessNoSlug ==
    /\ providerCalls = 1
    /\ forwarded.slashtag = Undef
    /\ req.customSlug.t = "string"
    /\ req.customSlug.s # <<>>

\* C12: on every provider failure of the create-link call the proxy answers
\* with exactly one (status, code) pair: 403 -> 403 API_KEY_ERROR, 422 -> 422
\* VALIDATION_ERROR, 429 -> 429 RATE_LIMIT, timeout -> 408 TIMEOUT, every
\* other failure -> 500 INTERNAL_ERROR
C12_FailureMapping ==
    (pc = "responded" /\ settled.kind \notin {"pending", "ok"}) =>
        /\ res.success = FALSE
        /\ <<res.status, res.code>> =
              CASE settled.kind = "status" /\ settled.status = 403
                        -> <<403, "API_KEY_ERROR">>
                [] settled.kind = "status" /\ settled.status = 422
                        -> <<422, "VALIDATION_ERROR">>
                [] settled.kind = "status" /\ settled.status = 429
                        -> <<429, "RATE_LIMIT">>
                [] settled.kind = "timeout" -> <<408, "TIMEOUT">>
                [] OTHER -> <<500, "INTERNAL_ERROR">>

\* the provider answered 429 and the proxy has responded
C12_Witness ==
    /\ pc = "responded"
    /\ settled.kind = "status"
    /\ settled.status = 429
    /\ res.status = 429

\* the provider failed with a status that has no branch of its own
C12_WitnessOther ==
    /\ pc = "responded"
    /\ settled.kind = "status"
    /\ settled.status = 404
    /\ res.status = 500

\* C13: when the provider answers 422 the local error message is the message
\* of the provider's first field error when it has one (an empty message
\* counts as none), otherwise the generic invalid-URL-or-slug-exists message;
\* status 422 and code VALIDATION_ERROR in both cases
C13_ValidationMessage ==
    (pc = "responded" /\ settled.kind = "status" /\ settled.status = 422) =>
        /\ res.status = 422
        /\ res.code = "VALIDATION_ERROR"
        /\ res.error = IF settled.message \notin {Undefined, ""}
                       THEN settled.message
                       ELSE "Invalid URL or custom slug already exists"

\* the provider's 422 carried a field error and its message went out
C13_Witness ==
    /\ pc = "responded"
    /\ settled = Failed(422, "slashtag already exists")
    /\ res.error = "slashtag already exists"

\* the provider's 422 carried no field error
C13_WitnessGeneric ==
    /\ pc = "responded"
    /\ settled = Failed(422, Undefined)
    /\ res.error = "Invalid URL or custom slug already exists"

\* C14: the proxy never retries: for every shorten request, whatever the
\* outcome, the provider is called at most once, and a timeout gives 408
\* TIMEOUT with exactly one call made
C14_NoRetry ==
    /\ providerCalls <= 1
    /\ settled.kind \notin {"pending"} => providerCalls = 1
    /\ settled.kind = "timeout" =>
          /\ res.status = 408
          /\ res.code = "TIMEOUT"
          /\ providerCalls = 1

\* the provider call timed out and the proxy has responded
C14_Witness ==
    /\ pc = "responded"
    /\ settled = TimedOut
    /\ providerCalls = 1

\* C15: GET /test answers success false with code INVALID_API_KEY exactly when
\* the provider's account call answered 403, and with TEST_FAILED for every
\* other failure (other status, timeout, no response); on provider success it
\* answers success true with the account's id, email, fullName and createdAt
C15_TestMapping ==
    (testPc = "responded") =>
        /\ testRes.success <=> (testSettled.kind = "ok")
        /\ (testRes.code = "INVALID_API_KEY")
              <=> (testSettled.kind = "status" /\ testSettled.status = 403)
        /\ (testRes.code = "TEST_FAILED")
              <=> (testSettled.kind # "ok"
                     /\ ~(testSettled.kind = "status" /\ testSettled.status = 403))
        /\ testSettled.kind = "ok" =>
              /\ testRes.status = 200
              /\ \A f \in {"id", "email", "fullName", "createdAt"} :
                    testRes.account[f] = testSettled.data[f]
              /\ DOMAIN testRes.account = {"id", "email", "fullName", "createdAt"}
        /\ testSettled.kind # "ok" => testRes.status = 500

\* the account call was refused with 403
C15_Witness ==
    /\ testPc = "responded"
    /\ testSettled.kind = "status"
    /\ testSettled.status = 403
    /\ testRes.code = "INVALID_API_KEY"

\* the account call was refused with another status
C15_WitnessOther ==
    /\ testPc = "responded"
    /\ testSettled.kind = "status"
    /\ testSettled.status = 401
    /\ testRes.code = "TEST_FAILED"

\* the account call succeeded
C15_WitnessOk ==
    /\ testPc = "responded"
    /\ testSettled.kind = "ok"
    /\ testRes.success
    /\ testRes.account.email = "a@b.c"

(***************************************************************************)
(* Claims about the form (under SpecView)                                  *)
(***************************************************************************)
\* C16: submission is blocked while submitting and while the badge reads
\* error: whatever the user does (button click, Enter in either input), no
\* shorten request is sent while isLoading is true or apiStatus is 'error'
C16_NoSendWhileBlocked ==
    \A i \in 1..Len(inflight) :
        /\ ~inflight[i].loading
        /\ inflight[i].badge # "error"

\* C17: every submission that enters submitting leaves it, provided the HTTP
\* call resolves or rejects; it leaves to success (short link shown, no
\* message) or to error (message shown, no short link); and the view is in
\* submitting exactly while the call has not settled
C17_SubmittingEnds ==
    /\ [](isLoading <=> (inflight # <<>>))
    /\ [][(isLoading /\ ~isLoading' /\ phase' = "mounted") =>
             ((shortenedUrl' # "") # (formError' # ""))]_vars
    /\ (isLoading ~> ~isLoading)

\* a submission left submitting with the message of a failed fetch
C17_Witness ==
    /\ phase = "mounted"
    /\ ~isLoading
    /\ inflight = <<>>
    /\ formError = "Failed to fetch"

\* a submission is in submitting
C17_WitnessSubmitting ==
    /\ isLoading
    /\ Len(inflight) = 1
    /\ formError = ""
    /\ shortenedUrl = ""

\* C18: the history list changes only through a successful shorten, an
\* explicit remove or an explicit clear (and where a session starts: the load
\* at mount, a reload); a successful shorten adds exactly one entry at the
\* head and moves the view to success; a failed submission (client validation
\* reject, proxy error response, network failure) and a credential probe
\* leave the list unchanged
C18_HistoryFrame ==
    [][/\ urlHistory' # urlHistory =>
             \/ Settle(Served)
             \/ \E id \in Ids : ClickDelete(id)
             \/ ClickClearAll
             \/ ViewMount
             \/ ViewReload
       /\ (Settle(Served) /\ IsArray(urlHistory)) =>
             /\ IsArray(urlHistory')
             /\ Len(urlHistory'.items) = Min(Len(urlHistory.items) + 1, 10)
             /\ urlHistory'.items[1] = [id |-> clock, rebrandlyId |-> dataId]
             /\ \A i \in 2..Len(urlHistory'.items) :
                   urlHistory'.items[i] = urlHistory.items[i - 1]
             /\ shortenedUrl' # ""
             /\ formError' = ""
             /\ ~isLoading'
       /\ (\/ \E r \in Responses \ {Served} : Settle(r)
           \/ ClickShorten
           \/ PressEnter
           \/ \E result \in ProbeResults : ProbeSettle(result)
           \/ RetryProbe) => urlHistory' = urlHistory
      ]_vars

\* a successful shorten added an entry to a list that had one
C18_Witness ==
    /\ shortenedUrl = ShortUrl
    /\ IsArray(urlHistory)
    /\ Len(urlHistory.items) = 2
    /\ ~isLoading

\* a submission failed while the list had entries
C18_WitnessFailed ==
    /\ formError = "Failed to fetch"
    /\ HasEntries(urlHistory)
    /\ ~isLoading

\* C19: in every reachable state no two history entries share an id
C19_UniqueIds ==
    IsArray(urlHistory) =>
        \A i, j \in 1..Len(urlHistory.items) :
            i # j => urlHistory.items[i].id # urlHistory.items[j].id

\* C20: at most one shorten request of the view is in flight, under every
\* interleaving of clicks and Enter keys with renders and pending responses
C20_OneInFlight == Len(inflight) <= 1

\* a request is in flight after an earlier one had succeeded
C20_Witness ==
    /\ Len(inflight) = 1
    /\ isLoading
    /\ HasEntries(urlHistory)
    /\ urlHistory.items[1].id = clock

\* C22: the success and error states of the view exclude each other: in no
\* reachable state does the view hold a non-empty shortened URL together with
\* a non-empty error message
C22_SuccessXorError == ~(shortenedUrl # "" /\ formError # "")

(***************************************************************************)
(* Claim about the middleware chain (under SpecChain)                      *)
(***************************************************************************)
\* C21: every request handled by the backend gets exactly one response: no
\* path through the chain (verify, body parsing, route handler, error
\* handler, 404 handler) makes a second call that writes a response, a
\* request whose body is not valid JSON included
C21_OneResponse ==
    /\ sends <= 1
    /\ stage = "done" => (sends = 1 /\ written # 0)

=============================================================================
